---------------------------- MODULE Spec2Model ----------------------------
(***************************************************************************)
(* Pipeline Doctor (lambda/doctor/index.js): an EventBridge-triggered      *)
(* handler that reads a retry counter from DynamoDB, either escalates via  *)
(* SNS or applies a remediation playbook through CodeBuild / CodePipeline, *)
(* and writes the counter back.  Every `await` of the handler is one step  *)
(* of an invocation; several invocations may be in flight at once.         *)
(***************************************************************************)
EXTENDS Integers, Sequences, FiniteSets, TLC

VARIABLES
    topicArn,     \* TOPIC_ARN of the process environment ("" when unset)
    maxRetries,   \* MAX_RETRIES as parsed from the process environment
    builds,       \* what codebuild.batchGetBuilds knows: build id -> build
    retriggered,  \* the work most recently re-triggered, as the failure event it raises
    store,        \* the DynamoDB table: incidentId -> item
    projects,     \* CodeBuild projects: project name -> timeoutInMinutes
    pc,           \* per invocation: the await it is suspended at
    event,        \* per invocation: the event it was invoked with
    build,        \* per invocation: local `build`
    incidentId,   \* per invocation: local `incidentId`
    retries,      \* per invocation: local `retries`
    action,       \* per invocation: local `action`
    calls,        \* per invocation: the SDK calls it has issued, in order
    pre,          \* per invocation: the stored item of its identity at entry
    processed,    \* per identity: failure events handed to the controller
    remediations, \* per identity: successful re-trigger calls
    clean,        \* no SDK call has been rejected so far
    overlapped,   \* per identity: two invocations for it have been in flight at once
    lastFailed,   \* the invocation that finished most recently, if a remediation call of it was rejected
    cbuild,       \* classification harness: the build being classified
    caction       \* classification harness: the action computed for cbuild

vars == <<topicArn, maxRetries, builds, retriggered, store, projects, pc, event, build, incidentId,
          retries, action, calls, pre, processed, remediations,
          clean, overlapped, lastFailed, cbuild, caction>>

-----------------------------------------------------------------------------
(* Bounds of the model.                                                    *)

NumInv == 2        \* invocations that may be in flight at once
MaxEvents == 3     \* failure events delivered in one behaviour
MaxFrags == 3      \* fragments of a diagnostic blob in the classifier harness

(* Program constants.                                                      *)

DEFAULT_MAX_RETRIES == 2
BUMPED_TIMEOUT == 25
BACKOFF_MS == 30000
INITIAL_TIMEOUT == 10

Invs == 1..NumInv

\* line 25: the retry budgets the environment may configure
MaxRetriesConfigs == 1..DEFAULT_MAX_RETRIES

-----------------------------------------------------------------------------
(* Strings the code inspects character by character are sequences of       *)
(* one-character strings.                                                  *)

UpperChars == <<"A","B","C","D","E","F","G","H","I","J","K","L","M",
                "N","O","P","Q","R","S","T","U","V","W","X","Y","Z">>
LowerChars == <<"a","b","c","d","e","f","g","h","i","j","k","l","m",
                "n","o","p","q","r","s","t","u","v","w","x","y","z">>

LowerChar(c) ==
    IF \E k \in DOMAIN UpperChars : UpperChars[k] = c
    THEN LowerChars[CHOOSE k \in DOMAIN UpperChars : UpperChars[k] = c]
    ELSE c

ToLowerCase(s) == [k \in DOMAIN s |-> LowerChar(s[k])]

Includes(s, sub) ==
    \E k \in 0..(Len(s) - Len(sub)) : SubSeq(s, k + 1, k + Len(sub)) = sub

TIMED_OUT == <<"T","I","M","E","D","_","O","U","T">>
RateExceeded == <<"r","a","t","e"," ","e","x","c","e","e","d","e","d">>

RECURSIVE Flatten(_)
Flatten(ss) == IF ss = <<>> THEN <<>> ELSE Head(ss) \o Flatten(Tail(ss))

-----------------------------------------------------------------------------
(* Builds as batchGetBuilds returns them.  NoBuild is `undefined`, the     *)
(* first element of an empty `builds` array.                               *)

NoBuild == [defined |-> FALSE]
Build(project, frags) == [defined |-> TRUE, projectName |-> project, frags |-> frags]

ProjectNameOf(b) == IF b.defined THEN b.projectName ELSE "undefined"

\* JSON.stringify(build): undefined for undefined, else the serialized fields.
Stringify(b) ==
    IF b.defined
    THEN [defined |-> TRUE,
          text |-> <<"{">> \o Flatten(b.frags) \o <<"}">>]
    ELSE [defined |-> FALSE, text |-> <<>>]

\* (raw || '')
OrEmpty(raw) == IF raw.defined THEN raw.text ELSE <<>>

ClassifyTimeoutLast(b) ==
    LET raw == Stringify(b)
        a0  == "RETRY"
        a1  == IF Includes(ToLowerCase(OrEmpty(raw)), RateExceeded)
               THEN "BACKOFF_AND_RETRY" ELSE a0
        a2  == IF Includes(OrEmpty(raw), TIMED_OUT)
               THEN "BUMP_TIMEOUT_AND_RETRY" ELSE a1
    IN  a2

\* lines 49-52: two independent overwrites of the pending action.
Classify(b) ==
    LET raw == Stringify(b)
        a0  == "RETRY"
        a1  == IF Includes(OrEmpty(raw), TIMED_OUT)
               THEN "BUMP_TIMEOUT_AND_RETRY" ELSE a0
        a2  == IF Includes(ToLowerCase(OrEmpty(raw)), RateExceeded)
               THEN "BACKOFF_AND_RETRY" ELSE a1
    IN  a2

-----------------------------------------------------------------------------
(* The DynamoDB item.  `retries` is stored as the decimal string           *)
(* String(retries) and read back with parseInt(n, 10).  lastUpdated is a   *)
(* wall-clock stamp no code path reads; it is left out of the item.        *)

Digits == <<"0","1","2","3","4","5","6","7","8","9">>

RECURSIVE NumToStr(_)
NumToStr(n) ==
    IF n < 10 THEN <<Digits[n + 1]>>
    ELSE NumToStr(n \div 10) \o <<Digits[(n % 10) + 1]>>

DigitVal(c) == (CHOOSE k \in DOMAIN Digits : Digits[k] = c) - 1

RECURSIVE ParseInt(_)
ParseInt(s) ==
    IF Len(s) = 1 THEN DigitVal(s[1])
    ELSE 10 * ParseInt(SubSeq(s, 1, Len(s) - 1)) + DigitVal(s[Len(s)])

NoItem == [present |-> FALSE]
Item(id, n, lastAction, status) ==
    [present |-> TRUE, incidentId |-> id, retries |-> NumToStr(n),
     lastAction |-> lastAction, status |-> status]

\* lines 113-114: n ? parseInt(n, 10) : 0
RetriesOf(item) ==
    IF item.present /\ item.retries # <<>> THEN ParseInt(item.retries) ELSE 0

StatusOf(item) == IF item.present THEN item.status ELSE "NEW"

-----------------------------------------------------------------------------
(* Inbound events.                                                         *)

BuildType == "CodeBuild Build State Change"
PipelineType == "CodePipeline Action Execution State Change"
OtherType == "CodeBuild Build Phase Change"

BuildIds == {"b1"}

\* lines 67-73: codebuild.startBuild creates a build with an id of its own
NewBuildId(k) == "b" \o ToString(k + 1)
StartedBuildIds == {NewBuildId(k) : k \in 1..MaxEvents}
AllBuildIds == BuildIds \cup StartedBuildIds
BuildStatuses == {"FAILED", "TIMED_OUT", "SUCCEEDED"}
Pipelines == {"p1", "p2"}
ExecIds == {"e1"}
Stages == {"Build"}
ActionStates == {"FAILED", "SUCCEEDED"}
ProjectNames == {"proj"}

BuildEvent(b, st) ==
    [dtype |-> BuildType, kind |-> "build", buildId |-> b, status |-> st]
StageEvent(p, e, s, st) ==
    [dtype |-> PipelineType, kind |-> "stage", pipeline |-> p,
     executionId |-> e, stage |-> s, state |-> st]
OtherEvent == [dtype |-> OtherType, kind |-> "other"]
NoEvent == [dtype |-> "", kind |-> "none"]

Events ==
    {BuildEvent(b, st) : b \in BuildIds, st \in BuildStatuses}
    \cup {StageEvent(p, e, s, st) :
            p \in Pipelines, e \in ExecIds, s \in Stages, st \in ActionStates}
    \cup {OtherEvent}

\* type.includes(pat) over the detail-types above, none of which contains another.
TypeIncludes(type, pat) == type = pat

\* lines 32-35
IsBuildFailureAnyStatus(e) == TypeIncludes(e.dtype, BuildType)
IsBuildFailure(e) ==
    /\ TypeIncludes(e.dtype, BuildType)
    /\ e.status \in {"FAILED", "TIMED_OUT"}

\* lines 81-83
IsStageFailure(e) ==
    /\ TypeIncludes(e.dtype, PipelineType)
    /\ e.state = "FAILED"

\* lines 39 and 87
IncidentIdOfKindOnly(e) ==
    IF e.kind = "build" THEN "codebuild:" ELSE "codepipeline:"
IncidentIdOf(e) ==
    IF e.kind = "build" THEN "codebuild:" \o e.buildId
    ELSE "codepipeline:" \o e.executionId \o ":" \o e.stage

\* The failure events of the builds the doctor itself has started.
StartedBuildEvents == {BuildEvent(b, "FAILED") : b \in StartedBuildIds}

Identities ==
    {IncidentIdOf(e) :
        e \in {x \in Events \cup StartedBuildEvents : x.kind \in {"build", "stage"}}}
NoIdentity == ""

\* lines 43 and 91: the escalation message, as the parts of its template literal
EscalationMessageNoCount(e, b, n) ==
    IF e.kind = "build"
    THEN <<"Build ", e.buildId, " (", ProjectNameOf(b), ") failed">>
    ELSE <<"Pipeline ", e.pipeline, "/", e.stage, " failed">>
EscalationMessage(e, b, n) ==
    IF e.kind = "build"
    THEN <<"Build ", e.buildId, " (", ProjectNameOf(b), ") failed after ",
           ToString(n), " retries">>
    ELSE <<"Pipeline ", e.pipeline, "/", e.stage, " failed after ",
           ToString(n), " retries">>

(* Diagnostic content of the sample builds of the handler model.           *)
FragPlain == <<"F","A","I","L","E","D">>
FragRateMixed == <<"R","a","t","e"," ","E","x","c","e","e","d","e","d">>

BuildSamples ==
    { NoBuild,
      Build("proj", <<FragPlain>>),
      Build("proj", <<TIMED_OUT>>),
      Build("proj", <<TIMED_OUT, FragRateMixed>>) }

-----------------------------------------------------------------------------
(* Initial state: a fresh process, an empty table, nothing in flight.      *)

Unread == 0 - 1

NoOutcome == [event |-> NoEvent, retries |-> Unread, action |-> ""]

NoRetrigger == [event |-> NoEvent, cause |-> NoIdentity, count |-> 0]

ExecutorOps == {"updateProject", "startBuild", "retryStageExecution"}

Init ==
    /\ topicArn \in {"arn:aws:sns:alerts", ""}
    /\ maxRetries \in MaxRetriesConfigs
    /\ \E known \in [BuildIds -> BuildSamples] :
          builds = [b \in AllBuildIds |-> IF b \in BuildIds THEN known[b] ELSE NoBuild]
    /\ retriggered = NoRetrigger
    /\ store = [id \in Identities |-> NoItem]
    /\ projects = [p \in ProjectNames |-> INITIAL_TIMEOUT]
    /\ pc = [i \in Invs |-> "idle"]
    /\ event = [i \in Invs |-> NoEvent]
    /\ build = [i \in Invs |-> NoBuild]
    /\ incidentId = [i \in Invs |-> NoIdentity]
    /\ retries = [i \in Invs |-> Unread]
    /\ action = [i \in Invs |-> ""]
    /\ calls = [i \in Invs |-> <<>>]
    /\ pre = [i \in Invs |-> NoItem]
    /\ processed = [id \in Identities |-> 0]
    /\ remediations = [id \in Identities |-> 0]
    /\ clean = TRUE
    /\ overlapped = [id \in Identities |-> FALSE]
    /\ lastFailed = NoOutcome
    /\ cbuild = NoBuild
    /\ caction = Classify(NoBuild)

-----------------------------------------------------------------------------
(* Helpers shared by the steps.                                            *)

Call(op, args, ok) == [op |-> op, args |-> args, ok |-> ok]

Running(i) == pc[i] \notin {"idle", "done", "error"}
Finished(i) == pc[i] \in {"done", "error"}

Outcome(i, op) ==
    IF op \in ExecutorOps
    THEN [event |-> event[i], retries |-> retries[i], action |-> action[i]]
    ELSE NoOutcome

ThrowSwallowed(i, op) ==
    /\ pc' = [pc EXCEPT ![i] = "putItem"]
    /\ clean' = FALSE
    /\ lastFailed' = Outcome(i, op)

\* A rejected promise propagates out of the handler: nothing else runs.
Throw(i, op) ==
    /\ pc' = [pc EXCEPT ![i] = "error"]
    /\ clean' = FALSE
    /\ lastFailed' = Outcome(i, op)

\* lines 42 and 90
BudgetExhaustedStrict(n) == n > maxRetries
BudgetExhausted(n) == n >= maxRetries

\* lines 54-65: the first step of the playbook of an action
FirstStepOfNoDelay(a) ==
    IF a = "BUMP_TIMEOUT_AND_RETRY" THEN "updateProject" ELSE "startBuild"
FirstStepOf(a) ==
    IF a = "BUMP_TIMEOUT_AND_RETRY" THEN "updateProject"
    ELSE IF a = "BACKOFF_AND_RETRY" THEN "backoff"
    ELSE "startBuild"

\* lines 44, 75, 92, 103: the arguments of the saveIncident the handler reaches
WrittenItemSwapped(id, n, a) ==
    IF BudgetExhausted(n) THEN Item(id, n, "GAVE_UP", "RETRYING")
    ELSE Item(id, n + 1, a, "UNHEALED")
WrittenItemStale(id, n, a) ==
    IF BudgetExhausted(n) THEN Item(id, n, "GAVE_UP", "UNHEALED")
    ELSE Item(id, n, a, "RETRYING")
WrittenItem(id, n, a) ==
    IF BudgetExhausted(n) THEN Item(id, n, "GAVE_UP", "UNHEALED")
    ELSE Item(id, n + 1, a, "RETRYING")

-----------------------------------------------------------------------------
(* The handler, one action per await.                                      *)

RECURSIVE SumOver(_, _)
SumOver(f, S) ==
    IF S = {} THEN 0
    ELSE LET x == CHOOSE y \in S : TRUE IN f[x] + SumOver(f, S \ {x})

\* Some invocation for identity id is between its entry and its return.
InFlightFor(id) ==
    \E j \in Invs : Running(j) /\ IncidentIdOf(event[j]) = id

\* The builds codebuild.startBuild has created so far.
StartedBuilds == {b \in StartedBuildIds : builds[b].defined}

\* The work invocation i has just re-triggered: the failure event it raises if
\* it fails again, the identity it was re-triggered under and the count the
\* invocation is about to store for that identity.
Retriggered(i, e) ==
    [event |-> e, cause |-> incidentId[i], count |-> retries[i] + 1]

\* Failure events delivered so far.
Delivered == SumOver(processed, Identities)

\* lines 27-35 and 80-89: entry, the event filter, up to the first await
Invoke(i, e) ==
    /\ pc[i] = "idle"
    /\ \A j \in Invs : j < i => pc[j] # "idle"
    /\ (IsBuildFailure(e) \/ IsStageFailure(e)) => Delivered < MaxEvents
    /\ event' = [event EXCEPT ![i] = e]
    /\ build' = [build EXCEPT ![i] = NoBuild]
    /\ retries' = [retries EXCEPT ![i] = Unread]
    /\ action' = [action EXCEPT ![i] = ""]
    /\ calls' = [calls EXCEPT ![i] = <<>>]
    /\ IF IsBuildFailure(e)
       THEN /\ pc' = [pc EXCEPT ![i] = "batchGetBuilds"]
            /\ incidentId' = [incidentId EXCEPT ![i] = NoIdentity]
            /\ pre' = [pre EXCEPT ![i] = store[IncidentIdOf(e)]]
            /\ processed' = [processed EXCEPT ![IncidentIdOf(e)] = @ + 1]
            /\ overlapped' = [overlapped EXCEPT ![IncidentIdOf(e)] = @ \/ InFlightFor(IncidentIdOf(e))]
            /\ UNCHANGED lastFailed
       ELSE IF IsStageFailure(e)
       THEN /\ pc' = [pc EXCEPT ![i] = "getItem"]
            /\ incidentId' = [incidentId EXCEPT ![i] = IncidentIdOf(e)]
            /\ pre' = [pre EXCEPT ![i] = store[IncidentIdOf(e)]]
            /\ processed' = [processed EXCEPT ![IncidentIdOf(e)] = @ + 1]
            /\ overlapped' = [overlapped EXCEPT ![IncidentIdOf(e)] = @ \/ InFlightFor(IncidentIdOf(e))]
            /\ UNCHANGED lastFailed
       ELSE /\ pc' = [pc EXCEPT ![i] = "done"]
            /\ incidentId' = [incidentId EXCEPT ![i] = NoIdentity]
            /\ pre' = [pre EXCEPT ![i] = NoItem]
            /\ lastFailed' = NoOutcome
            /\ UNCHANGED <<processed, overlapped>>
    /\ UNCHANGED <<topicArn, maxRetries, builds, retriggered, store, projects, remediations, clean,
                   cbuild, caction>>

\* lines 36-39: codebuild.batchGetBuilds
BatchGetBuilds(i) ==
    /\ pc[i] = "batchGetBuilds"
    /\ \E ok \in BOOLEAN :
        /\ calls' = [calls EXCEPT ![i] =
                        Append(@, Call("batchGetBuilds", [ids |-> <<event[i].buildId>>], ok))]
        /\ IF ok
           THEN /\ build' = [build EXCEPT ![i] = builds[event[i].buildId]]
                /\ incidentId' = [incidentId EXCEPT ![i] = IncidentIdOf(event[i])]
                /\ pc' = [pc EXCEPT ![i] = "getItem"]
                /\ UNCHANGED <<clean, lastFailed>>
           ELSE /\ Throw(i, "batchGetBuilds")
                /\ UNCHANGED <<build, incidentId>>
    /\ UNCHANGED <<topicArn, maxRetries, builds, retriggered, store, projects, event, retries, action,
                   pre, processed, remediations, overlapped, cbuild, caction>>

\* lines 41-52 and 89-94: getRetries (lines 108-115), the budget check, classification
GetRetries(i) ==
    /\ pc[i] = "getItem"
    /\ \E ok \in BOOLEAN :
        /\ calls' = [calls EXCEPT ![i] =
                        Append(@, Call("getItem", [key |-> incidentId[i]], ok))]
        /\ IF ok
           THEN LET n == RetriesOf(store[incidentId[i]])
                    a == IF event[i].kind = "build" THEN Classify(build[i])
                         ELSE "RETRY_STAGE"
                IN  /\ retries' = [retries EXCEPT ![i] = n]
                    /\ IF BudgetExhausted(n)
                       THEN /\ pc' = [pc EXCEPT ![i] = "notify"]
                            /\ UNCHANGED action
                       ELSE /\ action' = [action EXCEPT ![i] = a]
                            /\ pc' = [pc EXCEPT ![i] =
                                        IF event[i].kind = "build" THEN FirstStepOf(a)
                                        ELSE "retryStageExecution"]
                    /\ UNCHANGED <<clean, lastFailed>>
           ELSE /\ Throw(i, "getItem")
                /\ UNCHANGED <<retries, action>>
    /\ UNCHANGED <<topicArn, maxRetries, builds, retriggered, store, projects, event, build, incidentId,
                   pre, processed, remediations, overlapped, cbuild, caction>>

\* lines 130-133: notify returns without publishing when TOPIC_ARN is falsy
NotifyPublishesAlwaysSkip(arn) == FALSE
NotifyPublishes(arn) == arn # ""

\* lines 43 and 91: await notify(...)
Notify(i) ==
    /\ pc[i] = "notify"
    /\ IF NotifyPublishes(topicArn)
       THEN \E ok \in BOOLEAN :
               /\ calls' = [calls EXCEPT ![i] =
                              Append(@, Call("publish",
                                 [TopicArn |-> topicArn,
                                  Message |-> EscalationMessage(event[i], build[i], retries[i])],
                                 ok))]
               /\ IF ok
                  THEN /\ pc' = [pc EXCEPT ![i] = "putItem"]
                       /\ UNCHANGED <<clean, lastFailed>>
                  ELSE Throw(i, "publish")
       ELSE /\ pc' = [pc EXCEPT ![i] = "putItem"]
            /\ UNCHANGED <<calls, clean, lastFailed>>
    /\ UNCHANGED <<topicArn, maxRetries, builds, retriggered, store, projects, event, build, incidentId,
                   retries, action, pre, processed, remediations,
                   overlapped, cbuild, caction>>

\* lines 44, 75, 92, 103 with lines 117-128: saveIncident, then return
SaveIncident(i) ==
    /\ pc[i] = "putItem"
    /\ \E ok \in BOOLEAN :
        LET item == WrittenItem(incidentId[i], retries[i], action[i])
        IN  /\ calls' = [calls EXCEPT ![i] =
                            Append(@, Call("putItem", [Item |-> item], ok))]
            /\ IF ok
               THEN /\ store' = [store EXCEPT ![incidentId[i]] = item]
                    /\ pc' = [pc EXCEPT ![i] = "done"]
                    /\ lastFailed' = NoOutcome
                    /\ UNCHANGED clean
               ELSE /\ Throw(i, "putItem")
                    /\ UNCHANGED store
    /\ UNCHANGED <<topicArn, maxRetries, builds, retriggered, projects, event, build, incidentId,
                   retries, action, pre, processed, remediations,
                   overlapped, cbuild, caction>>

\* lines 54-60: codebuild.updateProject
UpdateProject(i) ==
    /\ pc[i] = "updateProject"
    /\ \E ok \in BOOLEAN :
        /\ calls' = [calls EXCEPT ![i] =
                        Append(@, Call("updateProject",
                           [name |-> ProjectNameOf(build[i]),
                            timeoutInMinutes |-> BUMPED_TIMEOUT], ok))]
        /\ IF ok
           THEN /\ projects' = [projects EXCEPT ![ProjectNameOf(build[i])] = BUMPED_TIMEOUT]
                /\ pc' = [pc EXCEPT ![i] = "startBuild"]
                /\ UNCHANGED <<clean, lastFailed>>
           ELSE /\ Throw(i, "updateProject")
                /\ UNCHANGED projects
    /\ UNCHANGED <<topicArn, maxRetries, builds, retriggered, store, event, build, incidentId,
                   retries, action, pre, processed, remediations,
                   overlapped, cbuild, caction>>

\* lines 62-65: the backoff timer fires
Backoff(i) ==
    /\ pc[i] = "backoff"
    /\ calls' = [calls EXCEPT ![i] =
                    Append(@, Call("setTimeout", [ms |-> BACKOFF_MS], TRUE))]
    /\ pc' = [pc EXCEPT ![i] = "startBuild"]
    /\ UNCHANGED <<topicArn, maxRetries, builds, retriggered, store, projects, event, build, incidentId,
                   retries, action, pre, processed, remediations,
                   clean, overlapped, lastFailed, overlapped, cbuild, caction>>

\* lines 67-73: codebuild.startBuild; the SDK rejects a missing projectName
StartBuild(i) ==
    /\ pc[i] = "startBuild"
    /\ \E ok \in (IF build[i].defined THEN BOOLEAN ELSE {FALSE}) :
        /\ calls' = [calls EXCEPT ![i] =
                        Append(@, Call("startBuild",
                           [projectName |-> ProjectNameOf(build[i]),
                            override |-> "CACHE_BUSTER"], ok))]
        /\ IF ok
           THEN LET started == NewBuildId(Cardinality(StartedBuilds) + 1)
                IN  /\ builds' = [builds EXCEPT ![started] = build[i]]
                    /\ retriggered' = Retriggered(i, BuildEvent(started, "FAILED"))
                    /\ remediations' = [remediations EXCEPT ![incidentId[i]] = @ + 1]
                    /\ pc' = [pc EXCEPT ![i] = "putItem"]
                    /\ UNCHANGED <<clean, lastFailed>>
           ELSE /\ Throw(i, "startBuild")
                /\ UNCHANGED <<builds, retriggered, remediations>>
    /\ UNCHANGED <<topicArn, maxRetries, store, projects, event, build, incidentId,
                   retries, action, pre, processed, overlapped, cbuild, caction>>

\* lines 96-101: codepipeline.retryStageExecution
RetryStageExecution(i) ==
    /\ pc[i] = "retryStageExecution"
    /\ \E ok \in BOOLEAN :
        /\ calls' = [calls EXCEPT ![i] =
                        Append(@, Call("retryStageExecution",
                           [pipelineName |-> event[i].pipeline,
                            pipelineExecutionId |-> event[i].executionId,
                            stageName |-> event[i].stage,
                            retryMode |-> "FAILED_ACTIONS"], ok))]
        /\ IF ok
           THEN /\ retriggered' = Retriggered(i, event[i])
                /\ remediations' = [remediations EXCEPT ![incidentId[i]] = @ + 1]
                /\ pc' = [pc EXCEPT ![i] = "putItem"]
                /\ UNCHANGED <<clean, lastFailed>>
           ELSE /\ Throw(i, "retryStageExecution")
                /\ UNCHANGED <<retriggered, remediations>>
    /\ UNCHANGED <<topicArn, maxRetries, builds, store, projects, event, build, incidentId,
                   retries, action, pre, processed, overlapped, cbuild, caction>>

\* line 106 (or the rejection): the invocation is over and its locals are gone
Return(i) ==
    /\ Finished(i)
    /\ pc' = [pc EXCEPT ![i] = "idle"]
    /\ event' = [event EXCEPT ![i] = NoEvent]
    /\ build' = [build EXCEPT ![i] = NoBuild]
    /\ incidentId' = [incidentId EXCEPT ![i] = NoIdentity]
    /\ retries' = [retries EXCEPT ![i] = Unread]
    /\ action' = [action EXCEPT ![i] = ""]
    /\ calls' = [calls EXCEPT ![i] = <<>>]
    /\ pre' = [pre EXCEPT ![i] = NoItem]
    /\ UNCHANGED <<topicArn, maxRetries, builds, retriggered, store, projects, processed,
                   remediations, clean, overlapped, lastFailed, overlapped, cbuild, caction>>

\* One step of an invocation that is in flight.
Step(i) ==
    \/ BatchGetBuilds(i)
    \/ GetRetries(i)
    \/ Notify(i)
    \/ SaveIncident(i)
    \/ UpdateProject(i)
    \/ Backoff(i)
    \/ StartBuild(i)
    \/ RetryStageExecution(i)
    \/ Return(i)

\* Events may be dispatched while other invocations are in flight.
Next ==
    \/ \E i \in Invs, e \in Events : Invoke(i, e)
    \/ \E i \in Invs : Step(i)

Spec == Init /\ [][Next]_vars

\* Sequential delivery: an event is dispatched only when nothing is in flight.
SeqInvoke(i, e) ==
    /\ \A j \in Invs : pc[j] = "idle"
    /\ Invoke(i, e)

SeqNext ==
    \/ \E i \in Invs, e \in Events : SeqInvoke(i, e)
    \/ \E i \in Invs : Step(i)

SeqSpec == Init /\ [][SeqNext]_vars

\* Sequential delivery of a failure and of the failures of its retries: once
\* the doctor has re-triggered some work, the next event is the failure of
\* that work (the build startBuild created, or the retried stage).
RetryInvoke(i, e) ==
    /\ IF retriggered = NoRetrigger THEN e \in Events ELSE e = retriggered.event
    /\ SeqInvoke(i, e)

RetryNext ==
    \/ \E i \in Invs, e \in Events \cup StartedBuildEvents : RetryInvoke(i, e)
    \/ \E i \in Invs : Step(i)

RetrySpec == Init /\ [][RetryNext]_vars

-----------------------------------------------------------------------------
(* Classification harness: the classifier of lines 49-52 applied to builds *)
(* whose serialized text is assembled from marker and near-marker          *)
(* fragments.                                                              *)

FragTimedLower == <<"t","i","m","e","d","_","o","u","t">>
FragRateUpper == <<"R","A","T","E"," ","E","X","C","E","E","D","E","D">>
FragRate == <<"R","a","t","e">>
FragExceeded == <<" ","e","x","C","E","E","D","E","D">>
FragTimed == <<"T","I","M","E","D">>
FragOut == <<"_","O","U","T">>

Fragments ==
    { TIMED_OUT, FragTimedLower, RateExceeded, FragRateMixed, FragRateUpper,
      FragRate, FragExceeded, FragTimed, FragOut, FragPlain }

\* batchGetBuilds returned a build with no diagnostic content
ClassifyEmpty ==
    /\ ~cbuild.defined
    /\ cbuild' = Build("proj", <<>>)
    /\ caction' = Classify(cbuild')
    /\ UNCHANGED <<topicArn, maxRetries, builds, retriggered, store, projects, pc, event, build,
                   incidentId, retries, action, calls, pre, processed,
                   remediations, clean, overlapped, lastFailed>>

\* the build carries one more fragment of diagnostic text
ClassifyAppend(f) ==
    /\ cbuild.defined
    /\ Len(cbuild.frags) < MaxFrags
    /\ cbuild' = Build("proj", Append(cbuild.frags, f))
    /\ caction' = Classify(cbuild')
    /\ UNCHANGED <<topicArn, maxRetries, builds, retriggered, store, projects, pc, event, build,
                   incidentId, retries, action, calls, pre, processed,
                   remediations, clean, overlapped, lastFailed>>

ClassifyNext ==
    \/ ClassifyEmpty
    \/ \E f \in Fragments : ClassifyAppend(f)

ClassifySpec == Init /\ [][ClassifyNext]_vars

-----------------------------------------------------------------------------
(* Vocabulary of the properties.                                           *)

ReTriggerOps == {"startBuild", "retryStageExecution"}

ReachesController(e) == IsBuildFailure(e) \/ IsStageFailure(e)

HasCall(i, ops) == \E k \in DOMAIN calls[i] : calls[i][k].op \in ops

CallIndexes(i, ops) == {k \in DOMAIN calls[i] : calls[i][k].op \in ops}

FailedExecutor(i) ==
    \E k \in DOMAIN calls[i] : calls[i][k].op \in ExecutorOps /\ ~calls[i][k].ok

Remediated(i) ==
    \E k \in DOMAIN calls[i] : calls[i][k].op \in ReTriggerOps /\ calls[i][k].ok

HasRead(i) == retries[i] # Unread

-----------------------------------------------------------------------------
\* C1: an invocation that read retryCount >= maxRetries has issued no
\* updateProject, startBuild or retryStageExecution call, every putItem it
\* issues carries the retryCount it read, and it does not return before it
\* has issued that putItem.
C1_TerminalIdempotence ==
    \A i \in Invs :
        (HasRead(i) /\ retries[i] >= maxRetries) =>
            /\ ~HasCall(i, ExecutorOps)
            /\ \A k \in CallIndexes(i, {"putItem"}) :
                  ParseInt(calls[i][k].args.Item.retries) = retries[i]
            /\ pc[i] = "done" => CallIndexes(i, {"putItem"}) # {}

C1_Witness ==
    \E i \in Invs :
        /\ pc[i] = "done"
        /\ HasRead(i) /\ retries[i] >= maxRetries
        /\ CallIndexes(i, {"putItem"}) # {}
        /\ RetriesOf(store[incidentId[i]]) = retries[i]

\* C2: under sequential delivery, an invocation one of whose remediation calls
\* was rejected ends in error, has issued no putItem, and leaves the stored item
\* of its identity as it was at entry; the next delivery of the same event reads
\* the same retryCount and chooses the same action.
C2_FailedRemediationKeepsBudget ==
    /\ \A i \in Invs :
          FailedExecutor(i) =>
              /\ pc[i] = "error"
              /\ CallIndexes(i, {"putItem"}) = {}
              /\ store[IncidentIdOf(event[i])] = pre[i]
    /\ \A i \in Invs :
          (lastFailed # NoOutcome /\ event[i] = lastFailed.event /\ HasRead(i)) =>
              /\ retries[i] = lastFailed.retries
              /\ action[i] = lastFailed.action
              /\ pc[i] # "notify"

C2_Witness ==
    \E i \in Invs :
        /\ lastFailed # NoOutcome
        /\ event[i] = lastFailed.event
        /\ Running(i) /\ HasRead(i)
        /\ ~FailedExecutor(i)
        /\ HasCall(i, ExecutorOps)

\* C3: under sequential delivery, when an invocation for a failure event has
\* finished, the stored retryCount of its identity is the one stored at its
\* entry plus 1 if one of its re-trigger calls succeeded, plus 0 otherwise.
C3_CountFollowsRemediation ==
    \A i \in Invs :
        (Finished(i) /\ ReachesController(event[i])) =>
            RetriesOf(store[IncidentIdOf(event[i])]) =
                RetriesOf(pre[i]) + (IF Remediated(i) THEN 1 ELSE 0)

\* C3, first half: the stored retryCount never decreases under sequential delivery.
C3_Monotone ==
    [][\A id \in Identities : RetriesOf(store'[id]) >= RetriesOf(store[id])]_vars

\* C4 as claimed: in every execution, overlapping invocations included, no
\* store write changes a stored status UNHEALED to RETRYING.
C4_UnhealedAbsorbingAlways ==
    [][\A id \in Identities :
          StatusOf(store[id]) = "UNHEALED" => StatusOf(store'[id]) # "RETRYING"]_vars

\* C4 as amended: as long as no two invocations for an identity have been in
\* flight at once, a stored status UNHEALED stays UNHEALED.
C4_UnhealedAbsorbingNoOverlap ==
    [][\A id \in Identities :
          (StatusOf(store[id]) = "UNHEALED" /\ ~overlapped[id]) =>
              StatusOf(store'[id]) = "UNHEALED"]_vars

C4_Witness ==
    \E i \in Invs :
        /\ pc[i] = "done"
        /\ StatusOf(pre[i]) = "UNHEALED"
        /\ ~overlapped[incidentId[i]]
        /\ CallIndexes(i, {"putItem"}) # {}
        /\ StatusOf(store[incidentId[i]]) = "UNHEALED"

\* The step issues a remediation call on behalf of identity id.
ExecutorCallStep(id) ==
    \E i \in Invs :
        /\ Running(i)
        /\ IncidentIdOf(event[i]) = id
        /\ Len(calls'[i]) = Len(calls[i]) + 1
        /\ calls'[i][Len(calls'[i])].op \in ExecutorOps

\* C5 as claimed: in every execution, overlapping invocations included, no
\* remediation call is issued for an identity whose stored status is UNHEALED.
C5_NoRemediationAfterUnhealedAlways ==
    [][\A id \in Identities :
          StatusOf(store[id]) = "UNHEALED" => ~ExecutorCallStep(id)]_vars

\* C5 as amended: as long as no two invocations for an identity have been in
\* flight at once, no remediation call is issued for it while its stored
\* status is UNHEALED (which, by C4, is from the first UNHEALED write on).
C5_NoRemediationAfterUnhealedNoOverlap ==
    [][\A id \in Identities :
          (StatusOf(store[id]) = "UNHEALED" /\ ~overlapped[id]) =>
              ~ExecutorCallStep(id)]_vars

C5_Witness ==
    \E i \in Invs :
        /\ Finished(i)
        /\ StatusOf(pre[i]) = "UNHEALED"
        /\ ~overlapped[IncidentIdOf(event[i])]
        /\ HasRead(i)
        /\ ~HasCall(i, ExecutorOps)

\* The parts of an escalation message that name the resource of event e.
ResourceParts(e) ==
    IF e.kind = "build" THEN {e.buildId} ELSE {e.pipeline, e.stage}

Parts(msg) == {msg[k] : k \in DOMAIN msg}

\* C6: with TOPIC_ARN set, an invocation that read retryCount >= maxRetries
\* and got past notify has published exactly one message, which names the
\* resource and the retryCount read; when it has returned, its calls after the
\* read are that publish and then one putItem of (retryCount read, GAVE_UP,
\* UNHEALED), and nothing else.  This holds whether or not the identity was
\* already UNHEALED at entry.
C6_EscalationStep ==
    \A i \in Invs :
        (HasRead(i) /\ retries[i] >= maxRetries /\ topicArn # "") =>
            LET pubs == CallIndexes(i, {"publish"})
                puts == CallIndexes(i, {"putItem"})
                n    == Len(calls[i])
            IN  /\ Cardinality(pubs) <= 1
                /\ pc[i] \in {"putItem", "done"} =>
                      /\ Cardinality(pubs) = 1
                      /\ \A k \in pubs :
                            /\ calls[i][k].ok
                            /\ ResourceParts(event[i]) \subseteq Parts(calls[i][k].args.Message)
                            /\ ToString(retries[i]) \in Parts(calls[i][k].args.Message)
                /\ pc[i] = "done" =>
                      /\ calls[i][n] =
                            Call("putItem",
                                 [Item |-> Item(IncidentIdOf(event[i]), retries[i],
                                                "GAVE_UP", "UNHEALED")], TRUE)
                      /\ calls[i][n - 1].op = "publish"
                      /\ calls[i][n - 2].op = "getItem"
                      /\ Cardinality(puts) = 1

C6_Witness ==
    \E i \in Invs :
        /\ pc[i] = "done"
        /\ topicArn # ""
        /\ StatusOf(pre[i]) = "UNHEALED"
        /\ HasRead(i) /\ retries[i] >= maxRetries
        /\ HasCall(i, {"publish"})
        /\ store[incidentId[i]] = Item(incidentId[i], retries[i], "GAVE_UP", "UNHEALED")

\* C7: whatever TOPIC_ARN is, a successful putItem of status UNHEALED comes
\* after a successful publish of the same invocation, and an invocation whose
\* publish was rejected ends in error without a putItem.
C7_EscalationNeverLost ==
    \A i \in Invs :
        /\ \A k \in CallIndexes(i, {"putItem"}) :
              (calls[i][k].ok /\ calls[i][k].args.Item.status = "UNHEALED") =>
                  \E j \in 1..(k - 1) : calls[i][j].op = "publish" /\ calls[i][j].ok
        /\ (\E j \in CallIndexes(i, {"publish"}) : ~calls[i][j].ok) =>
              (pc[i] = "error" /\ CallIndexes(i, {"putItem"}) = {})

\* C7 with TOPIC_ARN set: the part of the claim the code meets.
C7_WithChannel == topicArn # "" => C7_EscalationNeverLost

-----------------------------------------------------------------------------
(* Reference classification, stated on the characters of the serialized    *)
(* text without lower-casing it.                                           *)

UpperChar(c) ==
    IF \E k \in DOMAIN LowerChars : LowerChars[k] = c
    THEN UpperChars[CHOOSE k \in DOMAIN LowerChars : LowerChars[k] = c]
    ELSE c

ContainsExact(text, pat) ==
    \E k \in 1..(Len(text) - Len(pat) + 1) :
        \A j \in 1..Len(pat) : text[k + j - 1] = pat[j]

ContainsAnyCase(text, pat) ==
    \E k \in 1..(Len(text) - Len(pat) + 1) :
        \A j \in 1..Len(pat) : text[k + j - 1] \in {pat[j], UpperChar(pat[j])}

ReferenceAction(text) ==
    IF ContainsAnyCase(text, RateExceeded) THEN "BACKOFF_AND_RETRY"
    ELSE IF ContainsExact(text, TIMED_OUT) THEN "BUMP_TIMEOUT_AND_RETRY"
    ELSE "RETRY"

\* C8: the action computed for a build is BACKOFF_AND_RETRY if its serialized
\* text contains "rate exceeded" in any letter case, else
\* BUMP_TIMEOUT_AND_RETRY if it contains "TIMED_OUT" in exactly that case,
\* else RETRY; RETRY also when no build was returned.
C8_ClassificationMatchesReference ==
    /\ caction = ReferenceAction(OrEmpty(Stringify(cbuild)))
    /\ ~cbuild.defined => caction = "RETRY"

C8_Witness ==
    /\ cbuild.defined
    /\ ContainsExact(OrEmpty(Stringify(cbuild)), TIMED_OUT)
    /\ ContainsAnyCase(OrEmpty(Stringify(cbuild)), RateExceeded)
    /\ ~ContainsExact(OrEmpty(Stringify(cbuild)), RateExceeded)
    /\ caction = "BACKOFF_AND_RETRY"

BuildApiOps == {"batchGetBuilds", "updateProject", "startBuild"}

\* C9: an invocation for a pipeline-stage FAILED event that read
\* retryCount < maxRetries issues no build-API call; once past the retry it has
\* issued exactly one retryStageExecution, for the event's pipeline,
\* execution id and stage, in FAILED_ACTIONS mode; when it has returned, its
\* last call is the putItem of (retryCount + 1, RETRY_STAGE, RETRYING) and
\* that item is what the put stored.
C9_StageRetry ==
    \A i \in Invs :
        (event[i].kind = "stage" /\ HasRead(i) /\ retries[i] < maxRetries) =>
            LET rs == CallIndexes(i, {"retryStageExecution"})
                n  == Len(calls[i])
            IN  /\ ~HasCall(i, BuildApiOps)
                /\ ~HasCall(i, {"publish"})
                /\ Cardinality(rs) <= 1
                /\ \A k \in rs :
                      calls[i][k].args =
                          [pipelineName |-> event[i].pipeline,
                           pipelineExecutionId |-> event[i].executionId,
                           stageName |-> event[i].stage,
                           retryMode |-> "FAILED_ACTIONS"]
                /\ pc[i] \in {"putItem", "done"} =>
                      (Cardinality(rs) = 1 /\ \A k \in rs : calls[i][k].ok)
                /\ pc[i] = "done" =>
                      /\ calls[i][n] =
                            Call("putItem",
                                 [Item |-> Item(IncidentIdOf(event[i]), retries[i] + 1,
                                                "RETRY_STAGE", "RETRYING")], TRUE)
                      /\ calls[i][n - 1].op = "retryStageExecution"
                      /\ Cardinality(CallIndexes(i, {"putItem"})) = 1

\* C9: the put stores the item it carries.
C9_PutStores ==
    [][\A i \in Invs :
          (pc[i] = "putItem" /\ pc'[i] = "done") =>
              store'[incidentId[i]] = calls'[i][Len(calls'[i])].args.Item]_vars

C9_Witness ==
    \E i \in Invs :
        /\ pc[i] = "done"
        /\ event[i].kind = "stage"
        /\ event[i].pipeline = "p2"
        /\ HasRead(i) /\ retries[i] = 1
        /\ store[incidentId[i]] = Item(incidentId[i], 2, "RETRY_STAGE", "RETRYING")

\* C10: under sequential delivery with no call rejected, when nothing is in
\* flight an identity that k failure events have been processed for has, for
\* k = 0, no record; for 1 <= k <= maxRetries, status RETRYING,
\* retryCount k and k remediations; for k > maxRetries, status UNHEALED,
\* retryCount maxRetries and maxRetries remediations; and an invocation that
\* returned after reading retryCount >= maxRetries has published the
\* escalation.
C10_ExhaustionSequence ==
    clean =>
        /\ \A id \in Identities :
              (~InFlightFor(id)) =>
                  LET k == processed[id]
                  IN  /\ k = 0 => store[id] = NoItem
                      /\ (1 <= k /\ k <= maxRetries) =>
                            /\ StatusOf(store[id]) = "RETRYING"
                            /\ RetriesOf(store[id]) = k
                            /\ remediations[id] = k
                      /\ k > maxRetries =>
                            /\ StatusOf(store[id]) = "UNHEALED"
                            /\ RetriesOf(store[id]) = maxRetries
                            /\ remediations[id] = maxRetries
        /\ \A i \in Invs :
              (pc[i] = "done" /\ HasRead(i) /\ retries[i] >= maxRetries) =>
                  \E j \in CallIndexes(i, {"publish"}) :
                      /\ calls[i][j].ok
                      /\ ResourceParts(event[i]) \subseteq Parts(calls[i][j].args.Message)
                      /\ ToString(maxRetries) \in Parts(calls[i][j].args.Message)

\* C10 with TOPIC_ARN set: the part of the claim the code meets.
C10_WithChannel == topicArn # "" => C10_ExhaustionSequence

C10_WithChannelWitness ==
    \E i \in Invs :
        /\ clean /\ topicArn # ""
        /\ pc[i] = "done"
        /\ HasRead(i)
        /\ processed[incidentId[i]] = maxRetries + 1
        /\ StatusOf(store[incidentId[i]]) = "UNHEALED"

\* An invocation handling the failure of the work the doctor re-triggered last,
\* before it has re-triggered anything itself.
HandlesRetriggered(i) ==
    /\ retriggered # NoRetrigger
    /\ event[i] = retriggered.event
    /\ HasRead(i)
    /\ ~Remediated(i)

\* C11: when a failure and the failures of its retries are delivered one after
\* another and no SDK call is rejected, the invocation handling the failure of
\* the re-triggered work (the build startBuild created, or the retried stage)
\* derives the identity the work was re-triggered under and reads the
\* retryCount stored by that remediation.
C11_StableAcrossRetries ==
    \A i \in Invs :
        (clean /\ HandlesRetriggered(i)) =>
            /\ IncidentIdOf(event[i]) = retriggered.cause
            /\ retries[i] = retriggered.count

\* C11, stages only: the part of the claim the code meets.
C11_StableForStages ==
    \A i \in Invs :
        (clean /\ HandlesRetriggered(i) /\ event[i].kind = "stage") =>
            /\ IncidentIdOf(event[i]) = retriggered.cause
            /\ retries[i] = retriggered.count

C11_StableForStagesWitness ==
    \E i \in Invs :
        /\ clean /\ HandlesRetriggered(i) /\ event[i].kind = "stage"
        /\ retries[i] = maxRetries

\* C11, the consequence for the budget: the doctor starts at most maxRetries
\* builds for one original build failure.
C11_StartedBuildsBounded == Cardinality(StartedBuilds) <= maxRetries

\* The resource an event refers to, as the claim of C12 defines it.
ResourceReference(e) ==
    IF e.kind = "build" THEN <<"build", e.buildId>>
    ELSE <<"stage", e.pipeline, e.executionId, e.stage>>

\* C12: two invocations that have derived the same incidentId were invoked
\* with events of the same source kind and the same resource reference (build
\* id; pipeline name, execution id and stage name).
C12_DistinctAcrossFailures ==
    \A i, j \in Invs :
        (incidentId[i] # NoIdentity /\ incidentId[i] = incidentId[j]) =>
            ResourceReference(event[i]) = ResourceReference(event[j])

\* C12 without the pipeline name: the part of the claim the code meets.
C12_DistinctUpToPipeline ==
    \A i, j \in Invs :
        (incidentId[i] # NoIdentity /\ incidentId[i] = incidentId[j]) =>
            /\ event[i].kind = event[j].kind
            /\ event[i].kind = "build" => event[i].buildId = event[j].buildId
            /\ event[i].kind = "stage" =>
                  /\ event[i].executionId = event[j].executionId
                  /\ event[i].stage = event[j].stage

\* The events the claim of C13 calls unrecognized.
Unrecognized(e) ==
    \/ e.dtype \notin {BuildType, PipelineType}
    \/ e.dtype = BuildType /\ e.status \notin {"FAILED", "TIMED_OUT"}
    \/ e.dtype = PipelineType /\ e.state # "FAILED"

\* C13: the step that invokes the handler with an unrecognized event (another
\* detail-type, a build status other than FAILED / TIMED_OUT, an action state
\* other than FAILED) completes the invocation without error and without any
\* SDK call, and leaves the table, the projects, the builds and the re-trigger
\* counts as they were; the finished invocation still has issued no call.
C13_UnrecognizedIsNoOp ==
    [][\A i \in Invs :
          /\ (pc[i] = "idle" /\ pc'[i] # "idle" /\ Unrecognized(event'[i])) =>
                /\ pc'[i] = "done"
                /\ calls'[i] = <<>>
                /\ store' = store
                /\ projects' = projects
                /\ builds' = builds
                /\ remediations' = remediations
          /\ (pc[i] # "idle" /\ event[i] # NoEvent /\ Unrecognized(event[i])) =>
                /\ pc[i] = "done"
                /\ calls[i] = <<>>
                /\ pc'[i] \in {"done", "idle"}
                /\ calls'[i] = <<>>]_vars

C13_Witness ==
    \E i, j \in Invs :
        /\ pc[i] = "done" /\ event[i] = BuildEvent("b1", "SUCCEEDED")
        /\ calls[i] = <<>>
        /\ pc[j] = "done" /\ event[j].kind = "stage" /\ event[j].state = "SUCCEEDED"
        /\ \E id \in Identities : store[id] # NoItem

\* Two finished invocations for one identity that both read the same
\* retryCount below the budget: they were in flight at once.
BothRead(i, j) ==
    /\ i # j
    /\ pc[i] = "done" /\ pc[j] = "done"
    /\ incidentId[i] # NoIdentity /\ incidentId[i] = incidentId[j]
    /\ HasRead(i) /\ retries[i] = retries[j]
    /\ retries[i] < maxRetries

\* The retryCount of the last putItem of invocation i.
LastPut(i) ==
    LET ks == CallIndexes(i, {"putItem"})
        k == CHOOSE x \in ks : \A y \in ks : y <= x
    IN  ParseInt(calls[i][k].args.Item.retries)

\* C14: whenever two invocations for one identity have both read the same
\* retryCount N < maxRetries and both returned, each of them has re-triggered
\* and each has written N + 1: two re-triggers were made for the identity and
\* the stored retryCount is smaller than the number of re-triggers made.
C14_LostUpdate ==
    \A i, j \in Invs :
        BothRead(i, j) =>
            /\ Remediated(i) /\ Remediated(j)
            /\ LastPut(i) = retries[i] + 1
            /\ LastPut(j) = retries[i] + 1
            /\ remediations[incidentId[i]] >= 2
            /\ RetriesOf(store[incidentId[i]]) < remediations[incidentId[i]]

\* The lost update itself: a record with retryCount 1 is read by two
\* invocations, both re-trigger, both write 2, and 2 is what is stored after
\* three re-triggers.
C14_Witness ==
    \E i, j \in Invs :
        /\ BothRead(i, j)
        /\ clean
        /\ retries[i] = 1
        /\ RetriesOf(pre[i]) = 1 /\ RetriesOf(pre[j]) = 1
        /\ remediations[incidentId[i]] = 3
        /\ RetriesOf(store[incidentId[i]]) = 2
        /\ StatusOf(store[incidentId[i]]) = "RETRYING"

\* The ops of the calls invocation i issued after its table read, in order.
RECURSIVE OpsFrom(_, _)
OpsFrom(cs, k) ==
    IF k > Len(cs) THEN <<>> ELSE <<cs[k].op>> \o OpsFrom(cs, k + 1)

StepsAfterRead(i) ==
    LET ks == CallIndexes(i, {"getItem"})
    IN  IF ks = {} THEN <<>>
        ELSE OpsFrom(calls[i], (CHOOSE x \in ks : TRUE) + 1)

\* The playbook of an action of the build branch, as the claim of C15 lists it.
PlaybookOf(a) ==
    IF a = "BUMP_TIMEOUT_AND_RETRY" THEN <<"updateProject", "startBuild", "putItem">>
    ELSE IF a = "BACKOFF_AND_RETRY" THEN <<"setTimeout", "startBuild", "putItem">>
    ELSE <<"startBuild", "putItem">>

IsPrefix(s, t) == Len(s) <= Len(t) /\ \A k \in DOMAIN s : s[k] = t[k]

\* C15: the calls a build invocation that read retryCount < maxRetries has
\* issued after the read are a prefix of the playbook of its action --
\* updateProject, startBuild, putItem for BUMP_TIMEOUT_AND_RETRY; the delay,
\* startBuild, putItem for BACKOFF_AND_RETRY (also with TIMED_OUT in the
\* text); startBuild, putItem for RETRY -- and the whole playbook once it has
\* returned; the updateProject sets timeoutInMinutes 25 on the build's
\* project, the delay is 30000 ms, and the putItem stores the action executed.
C15_PlaybookOrder ==
    \A i \in Invs :
        (event[i].kind = "build" /\ HasRead(i) /\ retries[i] < maxRetries) =>
            /\ action[i] = ReferenceAction(OrEmpty(Stringify(build[i])))
            /\ IsPrefix(StepsAfterRead(i), PlaybookOf(action[i]))
            /\ pc[i] = "done" => StepsAfterRead(i) = PlaybookOf(action[i])
            /\ \A k \in DOMAIN calls[i] :
                  /\ calls[i][k].op = "updateProject" =>
                        /\ calls[i][k].args.timeoutInMinutes = 25
                        /\ calls[i][k].args.name = ProjectNameOf(build[i])
                  /\ calls[i][k].op = "setTimeout" => calls[i][k].args.ms = 30000
                  /\ calls[i][k].op = "putItem" =>
                        calls[i][k].args.Item.lastAction = action[i]

C15_Witness ==
    \E i, j \in Invs :
        /\ pc[i] = "done" /\ action[i] = "BACKOFF_AND_RETRY"
        /\ \E k \in DOMAIN build[i].frags : ContainsExact(build[i].frags[k], TIMED_OUT)
        /\ StepsAfterRead(i) = <<"setTimeout", "startBuild", "putItem">>
        /\ store[incidentId[i]].lastAction = "BACKOFF_AND_RETRY"
        /\ projects["proj"] = INITIAL_TIMEOUT
        /\ pc[j] = "putItem" /\ event[j].kind = "build"
        /\ StepsAfterRead(j) = <<"setTimeout", "startBuild">>

ReadOps == {"batchGetBuilds", "getItem"}

\* A describe or table-read call of invocation i was rejected.
ReadFailed(i) ==
    \E k \in DOMAIN calls[i] : calls[i][k].op \in ReadOps /\ ~calls[i][k].ok

\* C16: a step in which the describe call or the table read of an invocation
\* is rejected ends the invocation in error and leaves the table as it was,
\* the invocation has then issued no publish, no remediation call and no
\* putItem, and it issues no further call; a table read that finds no record
\* is not an error and yields retryCount 0.
C16_ReadFailureEndsInvocation ==
    [][\A i \in Invs :
          /\ (~ReadFailed(i) /\ ReadFailed(i)') =>
                /\ pc'[i] = "error"
                /\ store' = store
                /\ ~calls'[i][Len(calls'[i])].ok
                /\ \A k \in DOMAIN calls'[i] : calls'[i][k].op \in ReadOps
          /\ ReadFailed(i) =>
                /\ pc[i] = "error"
                /\ calls'[i] \in {calls[i], <<>>}
          /\ (pc[i] = "getItem" /\ pc'[i] # "getItem" /\ ~ReadFailed(i)'
                /\ store[incidentId[i]] = NoItem) =>
                /\ retries'[i] = 0
                /\ pc'[i] \notin {"error", "notify", "putItem"}]_vars

C16_Witness ==
    \E i, j \in Invs :
        /\ pc[i] = "error" /\ event[i].kind = "build"
        /\ ReadFailed(i) /\ Len(calls[i]) = 2
        /\ store[incidentId[i]] # NoItem
        /\ store[incidentId[i]] = pre[i]
        /\ pc[j] = "error" /\ event[j].kind = "stage"
        /\ ReadFailed(j)

RemediationActions ==
    {"RETRY", "BUMP_TIMEOUT_AND_RETRY", "BACKOFF_AND_RETRY", "RETRY_STAGE"}

\* C17: starting from an empty table, under every interleaving of
\* invocations, every stored item has status RETRYING with
\* 1 <= retryCount <= maxRetries and lastAction one of RETRY,
\* BUMP_TIMEOUT_AND_RETRY, BACKOFF_AND_RETRY, RETRY_STAGE, or status UNHEALED
\* with lastAction GAVE_UP and retryCount = maxRetries.
C17_RecordWellFormed ==
    \A id \in Identities :
        store[id].present =>
            \/ /\ store[id].status = "RETRYING"
               /\ 1 <= RetriesOf(store[id])
               /\ RetriesOf(store[id]) <= maxRetries
               /\ store[id].lastAction \in RemediationActions
            \/ /\ store[id].status = "UNHEALED"
               /\ store[id].lastAction = "GAVE_UP"
               /\ RetriesOf(store[id]) = maxRetries

C17_Witness ==
    \E id \in Identities :
        /\ overlapped[id]
        /\ remediations[id] > maxRetries
        /\ store[id].present
        /\ store[id].status = "UNHEALED"
        /\ store[id].lastAction = "GAVE_UP"
        /\ RetriesOf(store[id]) = maxRetries

\* C18: under sequential delivery from an empty table, whenever no invocation
\* is in flight, the number of successful startBuild / retryStageExecution
\* calls made for an identity equals the stored retryCount of that identity
\* and is at most maxRetries, whichever SDK calls were rejected.
C18_RemediationBound ==
    (\A i \in Invs : ~Running(i)) =>
        \A id \in Identities :
            /\ remediations[id] = RetriesOf(store[id])
            /\ remediations[id] <= maxRetries

\* The table key of the record of an event: source kind and resource.
KeyOf(e) ==
    IF e.kind = "build" THEN "codebuild:" \o e.buildId
    ELSE "codepipeline:" \o e.executionId \o ":" \o e.stage

\* The table keys invocation i has read or written.
KeysTouched(i) ==
    {calls[i][k].args.key : k \in CallIndexes(i, {"getItem"})}
    \cup {calls[i][k].args.Item.incidentId : k \in CallIndexes(i, {"putItem"})}

\* C19: every getItem and putItem of an invocation is keyed by the identity of
\* its own event; a step changes the stored item of an identity only if it is
\* the putItem of an invocation for that identity, so the items of all other
\* identities stay as they are; and a stored item keeps its key.
C19_PerIdentityIsolation ==
    [][/\ \A i \in Invs :
             KeysTouched(i)' \subseteq
                 (IF event'[i].kind \in {"build", "stage"}
                  THEN {KeyOf(event'[i])} ELSE {})
       /\ \A id \in Identities :
             /\ store'[id] # store[id] =>
                   \E i \in Invs :
                       /\ pc[i] = "putItem" /\ pc'[i] = "done"
                       /\ event[i].kind \in {"build", "stage"}
                       /\ KeyOf(event[i]) = id
                       /\ \A j \in Invs : calls'[j] # calls[j] => j = i
             /\ store[id].present =>
                   /\ store'[id].present
                   /\ store[id].incidentId = id
                   /\ store'[id].incidentId = id]_vars

C19_Witness ==
    \E i, j \in Invs :
        /\ pc[i] = "done" /\ event[i].kind = "build"
        /\ pc[j] = "done" /\ event[j].kind = "stage"
        /\ KeysTouched(i) = {"codebuild:b1"}
        /\ KeysTouched(j) = {"codepipeline:e1:Build"}
        /\ store["codebuild:b1"].present
        /\ store["codepipeline:e1:Build"].present
        /\ store["codepipeline:e1:Build"].status = "UNHEALED"

=============================================================================
